---- MODULE Spec2Model ----
(***************************************************************************)
(* A model of tell (src/src/tell/cli.py, src/src/tell/utils.py): the       *)
(* History Store, the Command Generator and the Session Loop.              *)
(*                                                                         *)
(* Strings are sequences of one-character strings, so that str.strip,      *)
(* str.lower, startswith/endswith, split, join and rsplit are computed the *)
(* way Python computes them.  The history file is a sequence of JSON       *)
(* tokens, so that json.dump and json.load are a real serialisation and a  *)
(* real parse.                                                             *)
(***************************************************************************)
EXTENDS Naturals, Integers, Sequences, FiniteSets, TLC

\* ------------------------------------------------------------------ bounds
\* Lines the interactive loop may read before only end-of-input is offered.
MaxCycles == 3
\* The longest list of turns handed to save_history on its own.
MaxTurns == 11
\* The longest response text handed to strip_command on its own.
MaxStrLen == 5
\* The longest list of turns whose save is followed write by write.
MaxSaveTurns == 2

\* ----------------------------------------------------------------- strings
\* The backtick character (U+0060).  A TLA+ string cannot hold it, so the
\* model writes it as "^"; no input of the model uses a caret.
BT == "^"
NL == "\n"
\* The characters str.strip() removes (those of them the model uses).
Whitespace == {" ", "\n", "\t"}

Min(a, b) == IF a < b THEN a ELSE b
Max(a, b) == IF a > b THEN a ELSE b

\* Python s[i:] on a 0-based index i >= 0.
DropFirst(s, n) == SubSeq(s, Min(n, Len(s)) + 1, Len(s))
\* Python s[:n] for n >= 0.
TakeFirst(s, n) == SubSeq(s, 1, Min(n, Len(s)))

\* str.lstrip(chars) / str.rstrip(chars) / str.strip(chars).
RECURSIVE LStripChars(_, _)
LStripChars(s, chars) ==
    IF s # <<>> /\ Head(s) \in chars THEN LStripChars(Tail(s), chars) ELSE s

RECURSIVE RStripChars(_, _)
RStripChars(s, chars) ==
    IF s # <<>> /\ s[Len(s)] \in chars
    THEN RStripChars(SubSeq(s, 1, Len(s) - 1), chars)
    ELSE s

StripChars(s, chars) == RStripChars(LStripChars(s, chars), chars)

\* str.strip() with no argument.
Strip(s) == StripChars(s, Whitespace)

\* str.lower(), on the letters the model's inputs use.
LowerChar(c) ==
    CASE c = "E" -> "e" [] c = "X" -> "x" [] c = "I" -> "i" [] c = "T" -> "t"
      [] c = "Q" -> "q" [] c = "U" -> "u" [] c = "C" -> "c" [] c = "L" -> "l"
      [] c = "A" -> "a" [] c = "R" -> "r" [] c = "S" -> "s" [] c = "D" -> "d"
      [] c = "Z" -> "z" [] c = "H" -> "h" [] c = "B" -> "b" [] c = "N" -> "n"
      [] OTHER -> c
Lower(s) == [i \in 1..Len(s) |-> LowerChar(s[i])]

StartsWith(s, p) == Len(s) >= Len(p) /\ SubSeq(s, 1, Len(p)) = p
EndsWith(s, p) == Len(s) >= Len(p) /\ SubSeq(s, Len(s) - Len(p) + 1, Len(s)) = p

\* str.split(sep) for a one-character separator: the list of the pieces.
RECURSIVE SplitAcc(_, _, _)
SplitAcc(s, sep, cur) ==
    IF s = <<>> THEN <<cur>>
    ELSE IF Head(s) = sep THEN <<cur>> \o SplitAcc(Tail(s), sep, <<>>)
    ELSE SplitAcc(Tail(s), sep, Append(cur, Head(s)))
Split(s, sep) == SplitAcc(s, sep, <<>>)

\* sep.join(parts) for a one-character separator.
RECURSIVE Join(_, _)
Join(sep, parts) ==
    IF parts = <<>> THEN <<>>
    ELSE IF Len(parts) = 1 THEN parts[1]
    ELSE parts[1] \o <<sep>> \o Join(sep, Tail(parts))

\* str.rfind(p): the highest 0-based index where p occurs, -1 when none.
RFind(s, p) ==
    LET hits == {i \in 0..(Len(s) - Len(p)) : SubSeq(s, i + 1, i + Len(p)) = p}
    IN  IF Len(s) < Len(p) \/ hits = {} THEN -1
        ELSE CHOOSE i \in hits : \A j \in hits : j <= i

\* s.rsplit(p, 1)[0]: what precedes the last occurrence of p; s when none.
RSplitOnceHead(s, p) ==
    IF RFind(s, p) = -1 THEN s ELSE TakeFirst(s, RFind(s, p))

Fence == <<BT, BT, BT>>

\* cli.strip_command
strip_command(command) ==
    LET c0 == Strip(command)
        c1 == IF StartsWith(c0, Fence) THEN Join(NL, Tail(Split(c0, NL))) ELSE c0
        c2 == IF EndsWith(c1, Fence) THEN RSplitOnceHead(c1, Fence) ELSE c1
    IN  StripChars(Strip(c2), {BT})

\* ------------------------------------------------------------ JSON tokens
\* A token of the history file: a punctuation mark (q = FALSE) or a quoted
\* JSON string (q = TRUE).
Punct(c) == [q |-> FALSE, v |-> <<c>>]
Quoted(str) == [q |-> TRUE, v |-> str]

KeyRole == <<"r", "o", "l", "e">>
KeyContent == <<"c", "o", "n", "t", "e", "n", "t">>
RoleSystem == <<"s", "y", "s", "t", "e", "m">>
RoleUser == <<"u", "s", "e", "r">>
RoleAssistant == <<"a", "s", "s", "i", "s", "t", "a", "n", "t">>

\* A Turn, the dict {"role": ..., "content": ...}.
Turn(role, content) == [role |-> role, content |-> content]

\* json.dump of one dict, keys in insertion order.
DumpTurn(t) ==
    << Punct("{"), Quoted(KeyRole), Quoted(t.role),
       Quoted(KeyContent), Quoted(t.content), Punct("}") >>

RECURSIVE DumpTurns(_)
DumpTurns(turns) ==
    IF turns = <<>> THEN <<>> ELSE DumpTurn(Head(turns)) \o DumpTurns(Tail(turns))

\* json.dump(trimmed_history, f, indent=2): the tokens written to the file.
JsonDump(turns) == <<Punct("[")>> \o DumpTurns(turns) \o <<Punct("]")>>

\* The tokens of one object of the file, when they are a {role, content} dict.
IsTurnTokens(g) ==
    /\ Len(g) = Len(DumpTurn(Turn(<<>>, <<>>)))
    /\ g[1] = Punct("{") /\ g[Len(g)] = Punct("}")
    /\ g[2] = Quoted(KeyRole) /\ g[4] = Quoted(KeyContent)
    /\ g[3].q /\ g[5].q

RECURSIVE ParseTurns(_)
\* The list of dicts the tokens between the brackets stand for; ok = FALSE
\* is json.JSONDecodeError.
ParseTurns(body) ==
    LET n == Len(DumpTurn(Turn(<<>>, <<>>)))
    IN  IF body = <<>> THEN [ok |-> TRUE, value |-> <<>>]
        ELSE IF Len(body) < n \/ ~IsTurnTokens(SubSeq(body, 1, n))
        THEN [ok |-> FALSE, value |-> <<>>]
        ELSE LET rest == ParseTurns(SubSeq(body, n + 1, Len(body)))
             IN  [ok |-> rest.ok,
                  value |-> IF rest.ok
                            THEN <<Turn(body[3].v, body[5].v)>> \o rest.value
                            ELSE <<>>]

\* json.load(f) on the files the model holds: those save_history wrote,
\* whole or cut short.
JsonLoad(data) ==
    IF Len(data) < 2 \/ data[1] # Punct("[") \/ data[Len(data)] # Punct("]")
    THEN [ok |-> FALSE, value |-> <<>>]
    ELSE ParseTurns(SubSeq(data, 2, Len(data) - 1))

\* ------------------------------------------------------------ History Store
\* A slip: an odd cap, which cuts an exchange in two.
MaxHistoryOdd == 10 - 1

MAX_HISTORY == 10

\* A slip: s[:n] in place of s[-n:], which keeps the oldest turns.
KeepOldest(s, i) == TakeFirst(s, 0 - i)

\* Python s[i:], i of either sign.
PySliceFrom(s, i) ==
    LET start == IF i < 0 THEN Max(Len(s) + i, 0) ELSE Min(i, Len(s))
    IN  SubSeq(s, start + 1, Len(s))

\* The history file: whether HISTORY_FILE exists, and its tokens.
NoFile == [exists |-> FALSE, data |-> <<>>]

\* A byte that is not UTF-8, and the JSON value null.
BadByte == Punct("0xFF")
JsonNull == Punct("null")

\* How load_history ends on a file: with a list ("list": also the [] of an
\* absent file and of a JSONDecodeError), with the UnicodeDecodeError that
\* f.read() raises and "except (json.JSONDecodeError, IOError)" lets through,
\* or with the None that json.load makes of null and that is returned as is.
load_outcome(f) ==
    IF ~f.exists THEN "list"
    ELSE IF \E i \in 1..Len(f.data) : f.data[i] = BadByte
    THEN "UnicodeDecodeError"
    ELSE IF f.data = <<JsonNull>> THEN "None"
    ELSE "list"

\* utils.load_history: the list it returns, when load_outcome is "list".
load_history(f) ==
    IF ~f.exists THEN <<>>
    ELSE IF JsonLoad(f.data).ok THEN JsonLoad(f.data).value
    ELSE <<>>

\* A slip: the list written without the trim.
save_untrimmed(messages) == [exists |-> TRUE, data |-> JsonDump(messages)]

\* utils.save_history: the file it leaves.
save_history(messages) ==
    LET trimmed_history == PySliceFrom(messages, 0 - MAX_HISTORY)
    IN  [exists |-> TRUE, data |-> JsonDump(trimmed_history)]

\* A slip: the file is left in place.
clear_nothing(f) == f

\* utils.clear_history: the file it leaves.
clear_history(f) == IF f.exists THEN NoFile ELSE f

\* ---------------------------------------------------- environment detector
\* os.path.basename: what follows the last "/".
Basename(path) == DropFirst(path, RFind(path, <<"/">>) + 1)

DefaultShell == <<"/", "b", "i", "n", "/", "b", "a", "s", "h">>

\* cli.detect_shell: (shell_name, shell_path) from the SHELL variable.
detect_shell(shellVar) ==
    LET shell_path == IF shellVar.set THEN shellVar.value ELSE DefaultShell
    IN  [shell_name |-> Lower(Basename(shell_path)), shell_path |-> shell_path]

\* cli.detect_os: platform.system().lower().startswith("linux").
IsLinux(system) == StartsWith(Lower(system), <<"l", "i", "n", "u", "x">>)
OsLinux == <<"L", "i", "n", "u", "x">>

\* cli.get_directory_context is not unfolded: the listing it returns.
DirContext == <<"a", ",", " ", "b">>

\* cli.build_system_prompt: the three inputs embedded in the fixed template.
build_system_prompt(os_name, shell_name, file_context) ==
    <<"O", "S", ":">> \o os_name \o <<";">> \o shell_name
        \o <<";", "[">> \o file_context \o <<"]">>

\* ------------------------------------------------------------------ inputs
Unset == [set |-> FALSE, value |-> <<>>]
Given(str) == [set |-> TRUE, value |-> str]

\* The process environment: whether groq imports, GROQ_API_KEY, SHELL and
\* platform.system().
Environments ==
    [ groq : BOOLEAN,
      api_key : {Unset, Given(<<>>), Given(<<"k">>)},
      shell : {Unset, Given(<<"/", "b", "i", "n", "/", "Z", "s", "h">>)},
      system : {<<"L", "i", "n", "u", "x">>, <<"D", "a", "r", "w", "i", "n">>} ]

\* Ten turns of five earlier exchanges, as earlier runs leave them.
SeedContents == <<"0", "1", "2", "3", "4", "5", "6", "7", "8", "9">>
SeedHistory ==
    [i \in 1..Len(SeedContents) |->
        Turn(IF i % 2 = 1 THEN RoleUser ELSE RoleAssistant, <<SeedContents[i]>>)]

\* The history file a run may find: none, an empty log, a full log, and what
\* a save that was cut short leaves (nothing, or the first tokens).
InitialFiles ==
    { NoFile,
      save_history(<<>>),
      save_history(SeedHistory),
      [exists |-> TRUE, data |-> <<>>],
      [exists |-> TRUE, data |-> TakeFirst(JsonDump(SeedHistory), 4)],
      [exists |-> TRUE, data |-> <<BadByte>>],
      [exists |-> TRUE, data |-> <<JsonNull>>] }

\* The prompt argument of the command line.
PromptArgs == {Unset, Given(<<"l", "s">>), Given(<<" ", "d", "u", " ">>)}

\* Lines typed at "Describe a task".
InputLines ==
    { <<>>, <<" ", "\t">>,
      <<"e", "x", "i", "t">>, <<" ", "E", "X", "I", "T", " ">>,
      <<"Q", "u", "i", "t">>,
      <<"c", "l", "e", "a", "r">>, <<" ", "C", "l", "e", "a", "R", " ">>,
      <<"l", "s">>, <<" ", "E", "x", "i", "t", "s", " ">> }

\* What Prompt.ask gives: a line, EOFError or KeyboardInterrupt.
ReadOutcomes ==
    [kind : {"line"}, line : InputLines]
        \cup [kind : {"EOFError", "KeyboardInterrupt"}, line : {<<>>}]

\* What client.chat.completions.create gives: an exception, or a response
\* whose message content is None or a text.
RemoteOutcomes ==
    { [raised |-> TRUE, none |-> FALSE, content |-> <<>>],
      [raised |-> FALSE, none |-> TRUE, content |-> <<>>],
      [raised |-> FALSE, none |-> FALSE, content |-> <<BT, BT>>],
      [raised |-> FALSE, none |-> FALSE,
       content |-> <<BT, BT, BT, "\n", "l", "s", "\n", BT, BT, BT>>],
      [raised |-> FALSE, none |-> FALSE, content |-> <<" ", "d", "u", "\n">>] }

\* What subprocess.run gives: FileNotFoundError, or a return code.
RunOutcomes ==
    [raised : {TRUE}, returncode : {0}]
        \cup [raised : {FALSE}, returncode : {0, 1, 3}]

\* The command line typer parses for main.
MainArgs == [clear : BOOLEAN, interactive : BOOLEAN, prompt : PromptArgs]
NoArgs == [clear |-> FALSE, interactive |-> FALSE, prompt |-> Unset]

\* ------------------------------------------------------------------- state
\* The second invocation before it has started.
NoPeer == [pc |-> "none", prompt |-> <<>>, loaded |-> <<>>, command |-> <<>>]

NoResponse == [raised |-> FALSE, none |-> TRUE, content |-> <<>>]

VARIABLES
    pc,             \* where the process is: "main", "read" (Prompt.ask),
                    \* "generate", "confirm" (Confirm.ask), "run", "done"
    argv,           \* the command line: --clear, --interactive, the prompt
    peer,           \* a second invocation of tell, when there is one
    env,            \* the process environment
    file,           \* HISTORY_FILE
    mode,           \* the call site main reached: "none", "oneshot"
                    \* (handle_prompt) or "interactive" (interactive_loop)
    exit_on_abort,  \* the flag handle_prompt was called with
    shell,          \* detect_shell's result
    prompt,         \* the line read / the prompt handed to handle_prompt
    response,       \* what the remote call gave, once "create" is in calls
    command,        \* generate_command's result
    messages,       \* generate_command's request to the model, when sent
    loaded,         \* what the last load_history() returned
    history,        \* the list handed to save_history
    exit_code,      \* run_command's result, once "run_command" is in calls
    calls,          \* the collaborators called in the current cycle
    afterClear,     \* "none", "cleared" (history cleared, no generation
                    \* since) or "first" (this cycle is the first since)
    cycles,         \* lines read by the interactive loop
    exitCode        \* the process's exit status, once pc = "done"

vars == << pc, argv, peer, env, file, mode, exit_on_abort, shell, prompt, response, command,
           messages, loaded, history, exit_code, calls, afterClear, cycles,
           exitCode >>

Init ==
    /\ pc = "main"
    /\ argv \in MainArgs
    /\ peer = NoPeer
    /\ env \in Environments
    /\ file \in InitialFiles
    /\ mode = "none"
    /\ exit_on_abort = FALSE
    /\ shell = detect_shell(Unset)
    /\ prompt = <<>>
    /\ response = NoResponse
    /\ command = <<>>
    /\ messages = <<>>
    /\ loaded = <<>>
    /\ history = <<>>
    /\ exit_code = 0
    /\ calls = <<>>
    /\ afterClear = "none"
    /\ cycles = 0
    /\ exitCode = 0

\* raise typer.Exit(code), or main returning (code 0): the process ends.
Exit(code) == pc' = "done" /\ exitCode' = code

\* ---------------------------------------------------------------- cli.main
\* A slip: the flag ignored when a prompt is given.
WantsInteractiveNoPrompt(a) == ~a.prompt.set

\* "if interactive or prompt is None"
WantsInteractive(a) == a.interactive \/ ~a.prompt.set

\* main: --clear first, then detection, then the choice of the mode.
Main ==
    /\ pc = "main"
    /\ LET args == argv IN
        IF args.clear
        THEN /\ file' = clear_history(file)
             /\ calls' = <<"clear_history">>
             /\ Exit(0)
             /\ UNCHANGED <<mode, exit_on_abort, shell, prompt>>
        ELSE IF ~IsLinux(env.system)
        THEN /\ Exit(1)
             /\ UNCHANGED <<file, calls, mode, exit_on_abort, shell, prompt>>
        ELSE /\ shell' = detect_shell(env.shell)
             /\ UNCHANGED <<file, calls, exitCode>>
             /\ IF WantsInteractive(args)
                THEN /\ pc' = "read"
                     /\ mode' = "interactive"
                     /\ UNCHANGED <<exit_on_abort, prompt>>
                ELSE /\ pc' = "generate"
                     /\ mode' = "oneshot"
                     /\ prompt' = args.prompt.value
                     /\ exit_on_abort' = TRUE
    /\ UNCHANGED <<argv, peer, env, response, command, messages, loaded, history,
                   exit_code, afterClear, cycles>>

\* ----------------------------------------------------- cli.interactive_loop
\* A slip: the test without strip().
IsBlankEmptyOnly(line) == line = <<>>

\* "if not prompt.strip()"
IsBlank(line) == Strip(line) = <<>>

\* A slip: "quit" forgotten.
IsExitOnly(line) == Lower(Strip(line)) = <<"e", "x", "i", "t">>

\* prompt.strip().lower() in {"exit", "quit"}
IsExit(line) ==
    Lower(Strip(line)) \in {<<"e", "x", "i", "t">>, <<"q", "u", "i", "t">>}

\* A slip: the comparison without lower().
IsClearExact(line) == Strip(line) = <<"c", "l", "e", "a", "r">>

\* prompt.strip().lower() == "clear"
IsClear(line) == Lower(Strip(line)) = <<"c", "l", "e", "a", "r">>

\* A slip: the loop passing exit_on_abort=True.
LoopExitOnAbortTrue == TRUE

\* The exit_on_abort the loop passes to handle_prompt.
LoopExitOnAbort == FALSE

\* One pass of the while loop up to the call of handle_prompt.
ReadLine ==
    /\ pc = "read"
    /\ \E o \in ReadOutcomes :
        /\ o.kind = "line" => cycles < MaxCycles
        /\ IF o.kind # "line"
           THEN /\ Exit(0)
                /\ calls' = <<o.kind>>
                /\ UNCHANGED <<prompt, file, afterClear, cycles, exit_on_abort>>
           ELSE /\ prompt' = o.line
                /\ cycles' = cycles + 1
                /\ IF IsBlank(o.line)
                   THEN /\ calls' = <<"Prompt.ask">>
                        /\ UNCHANGED <<pc, exitCode, file, afterClear,
                                       exit_on_abort>>
                   ELSE IF IsExit(o.line)
                   THEN /\ calls' = <<"Prompt.ask">>
                        /\ Exit(0)
                        /\ UNCHANGED <<file, afterClear, exit_on_abort>>
                   ELSE IF IsClear(o.line)
                   THEN /\ file' = clear_history(file)
                        /\ calls' = <<"Prompt.ask", "clear_history">>
                        /\ afterClear' = "cleared"
                        /\ UNCHANGED <<pc, exitCode, exit_on_abort>>
                   ELSE /\ pc' = "generate"
                        /\ exit_on_abort' = LoopExitOnAbort
                        /\ calls' = <<"Prompt.ask">>
                        /\ afterClear' =
                              IF afterClear = "cleared" THEN "first" ELSE "none"
                        /\ UNCHANGED <<exitCode, file>>
    /\ UNCHANGED <<argv, peer, env, mode, shell, response, command, messages, loaded,
                   history, exit_code>>

\* ----------------------------------------------------- cli.generate_command
\* ensure_groq: the dependency imports and GROQ_API_KEY is set and not empty.
ensure_groq(e) == e.groq /\ e.api_key.set /\ e.api_key.value # <<>>

\* The request: the system message, the loaded history, the new user turn.
BuildMessages(system_prompt, hist, p) ==
    <<Turn(RoleSystem, system_prompt)>> \o hist \o <<Turn(RoleUser, Strip(p))>>

\* A slip: the user turn appended with the prompt as typed.
AppendExchangeRaw(hist, p, cmd) ==
    hist \o <<Turn(RoleUser, p), Turn(RoleAssistant, cmd)>>

\* The history after the two appends.
AppendExchange(hist, p, cmd) ==
    hist \o <<Turn(RoleUser, Strip(p)), Turn(RoleAssistant, cmd)>>

\* response.choices[0].message.content or ""
ResponseContent(r) == IF r.none THEN <<>> ELSE r.content

\* A slip: the emptiness test left out.
IsEmptyNever(cmd) == FALSE

\* "if not command"
IsEmptyCommand(cmd) == cmd = <<>>

\* generate_command, and show_command after it: up to Confirm.ask.
Generate ==
    /\ pc = "generate"
    /\ \E r \in RemoteOutcomes :
        LET hist == load_history(file)
            msgs == BuildMessages(
                        build_system_prompt(OsLinux, shell.shell_name, DirContext),
                        hist, prompt)
            cmd  == strip_command(ResponseContent(r))
        IN  IF ~ensure_groq(env)
            THEN /\ Exit(1)
                 /\ calls' = calls \o <<"generate_command">>
                 /\ UNCHANGED <<file, response, command, messages, loaded,
                                history>>
            ELSE IF load_outcome(file) # "list"
            THEN \* an exception nothing catches: traceback, status 1
                 /\ Exit(1)
                 /\ calls' = calls \o
                       << "generate_command",
                          IF load_outcome(file) = "None"
                          THEN "messages.extend:TypeError"
                          ELSE "load_history:UnicodeDecodeError" >>
                 /\ UNCHANGED <<file, response, command, messages, loaded,
                                history>>
            ELSE IF r.raised \/ IsEmptyCommand(cmd)
            THEN /\ Exit(1)
                 /\ calls' = calls \o <<"generate_command", "create">>
                 /\ response' = r
                 /\ messages' = msgs
                 /\ loaded' = hist
                 /\ history' = hist
                 /\ UNCHANGED <<file, command>>
            ELSE /\ pc' = "confirm"
                 /\ calls' = calls \o <<"generate_command", "create",
                                       "save_history", "show_command">>
                 /\ response' = r
                 /\ messages' = msgs
                 /\ loaded' = hist
                 /\ history' = AppendExchange(hist, prompt, cmd)
                 /\ file' = save_history(AppendExchange(hist, prompt, cmd))
                 /\ command' = cmd
                 /\ UNCHANGED exitCode
    /\ UNCHANGED <<argv, peer, env, mode, exit_on_abort, shell, prompt, exit_code,
                   afterClear, cycles>>

\* -------------------------------------------------------- cli.handle_prompt
\* A slip: the answer ignored.
DeclinedNever(answer) == FALSE

\* "if not Confirm.ask(...)"
Declined(answer) == ~answer

\* Where handle_prompt's return leads: main's end, or the loop's next pass.
Return ==
    IF mode = "oneshot" THEN Exit(0) ELSE pc' = "read" /\ UNCHANGED exitCode

\* Confirm.ask and the branch on its answer.
Confirm ==
    /\ pc = "confirm"
    /\ \E answer \in BOOLEAN :
        /\ calls' = Append(calls, IF answer THEN "Confirm.ask:yes"
                                            ELSE "Confirm.ask:no")
        /\ IF Declined(answer)
           THEN IF exit_on_abort THEN Exit(0) ELSE Return
           ELSE pc' = "run" /\ UNCHANGED exitCode
    /\ UNCHANGED <<argv, peer, env, file, mode, exit_on_abort, shell, prompt, response,
                   command, messages, loaded, history, exit_code, afterClear,
                   cycles>>

\* A slip: every failure reported as 1.
AbortCodeOne(code) == 1

\* The status handle_prompt exits with on a non-zero exit_code.
AbortCode(code) == code

\* run_command and the branch on its exit code.
RunCommand ==
    /\ pc = "run"
    /\ \E o \in RunOutcomes :
        IF o.raised
        THEN /\ Exit(1)
             /\ calls' = Append(calls, "run_command:FileNotFoundError")
             /\ UNCHANGED exit_code
        ELSE /\ calls' = Append(calls, "run_command")
             /\ exit_code' = o.returncode
             /\ IF o.returncode # 0 /\ exit_on_abort
                THEN Exit(AbortCode(o.returncode))
                ELSE Return
    /\ UNCHANGED <<argv, peer, env, file, mode, exit_on_abort, shell, prompt, response,
                   command, messages, loaded, history, afterClear, cycles>>

Next == Main \/ ReadLine \/ Generate \/ Confirm \/ RunCommand

Spec == Init /\ [][Next]_vars

\* ------------------------------------------------ the History Store alone
\* save_history, load_history and clear_history applied, in any order, to a
\* list of turns drawn from every list of at most MaxTurns turns.
StoreTurns == {Turn(RoleUser, <<"l", "s">>), Turn(RoleAssistant, <<"d", "u">>)}
TurnLists == UNION {[1..n -> StoreTurns] : n \in 0..MaxTurns}

\* The files the store is tried on: none, a full log, a save cut short.
StoreFiles ==
    { NoFile, save_history(SeedHistory),
      [exists |-> TRUE, data |-> TakeFirst(JsonDump(SeedHistory), 4)],
      [exists |-> TRUE, data |-> <<BadByte>>],
      [exists |-> TRUE, data |-> <<JsonNull>>] }

StoreInit ==
    /\ pc = "store"
    /\ argv = NoArgs
    /\ peer = NoPeer
    /\ env \in {e \in Environments : ensure_groq(e) /\ IsLinux(e.system)
                                       /\ ~e.shell.set}
    /\ file \in StoreFiles
    /\ mode = "none"
    /\ exit_on_abort = FALSE
    /\ shell = detect_shell(Unset)
    /\ prompt = <<>>
    /\ response = NoResponse
    /\ command = <<>>
    /\ messages = <<>>
    /\ loaded = <<>>
    /\ history \in TurnLists
    /\ exit_code = 0
    /\ calls = <<>>
    /\ afterClear = "none"
    /\ cycles = 0
    /\ exitCode = 0

\* The last call and this one.
LastTwo(log, op) == IF log = <<>> THEN <<op>> ELSE <<log[Len(log)], op>>

StoreSave ==
    /\ pc = "store"
    /\ file' = save_history(history)
    /\ calls' = LastTwo(calls, "save_history")
    /\ UNCHANGED <<pc, argv, peer, env, mode, exit_on_abort, shell, prompt, response,
                   command, messages, loaded, history, exit_code, afterClear,
                   cycles, exitCode>>

StoreLoad ==
    /\ pc = "store"
    /\ IF load_outcome(file) = "list"
       THEN /\ loaded' = load_history(file)
            /\ calls' = LastTwo(calls, "load_history")
       ELSE /\ UNCHANGED loaded
            /\ calls' = LastTwo(calls,
                    IF load_outcome(file) = "None" THEN "load_history:None"
                    ELSE "load_history:UnicodeDecodeError")
    /\ UNCHANGED <<pc, argv, peer, env, file, mode, exit_on_abort, shell, prompt, response,
                   command, messages, history, exit_code, afterClear, cycles,
                   exitCode>>

StoreClear ==
    /\ pc = "store"
    /\ file' = clear_history(file)
    /\ calls' = LastTwo(calls, "clear_history")
    /\ UNCHANGED <<pc, argv, peer, env, mode, exit_on_abort, shell, prompt, response,
                   command, messages, loaded, history, exit_code, afterClear,
                   cycles, exitCode>>

StoreNext == StoreSave \/ StoreLoad \/ StoreClear

StoreSpec == StoreInit /\ [][StoreNext]_vars

\* ------------------------------------------------------------------ claims
Has(log, op) == \E i \in 1..Len(log) : log[i] = op
Last(log) == log[Len(log)]
Count(log, op) == Cardinality({i \in 1..Len(log) : log[i] = op})

\* The last min(Len(s), n) elements of s, in their order.
LastTurns(s, n) ==
    LET k == IF Len(s) < n THEN Len(s) ELSE n
    IN  [i \in 1..k |-> s[Len(s) - k + i]]

\* s without its leading and trailing whitespace, said without str.strip.
Trimmed(s) ==
    LET cuts == { c \in (1..(Len(s) + 1)) \X (0..Len(s)) :
                    /\ c[1] <= c[2] + 1
                    /\ \A k \in 1..(c[1] - 1) : s[k] \in Whitespace
                    /\ \A k \in (c[2] + 1)..Len(s) : s[k] \in Whitespace
                    /\ c[1] <= c[2] =>
                          s[c[1]] \notin Whitespace /\ s[c[2]] \notin Whitespace }
        cut == CHOOSE c \in cuts : TRUE
    IN  SubSeq(s, cut[1], cut[2])

Ran == Has(calls, "run_command") \/ Has(calls, "run_command:FileNotFoundError")

\* C1: run_command is invoked only right after Confirm.ask answered yes; once
\* the user has declined, run_command is not invoked in that cycle, and in
\* one-shot mode the process has ended with status 0.
C1_ExecuteOnlyAfterYes ==
    /\ \A i \in 1..Len(calls) :
          calls[i] \in {"run_command", "run_command:FileNotFoundError"}
              => i > 1 /\ calls[i - 1] = "Confirm.ask:yes"
    /\ pc = "run" => calls # <<>> /\ Last(calls) = "Confirm.ask:yes"
    /\ Has(calls, "Confirm.ask:no") =>
          /\ ~Ran
          /\ pc # "run"
          /\ mode = "oneshot" => pc = "done" /\ exitCode = 0

C1_Witness ==
    mode = "oneshot" /\ Has(calls, "Confirm.ask:no") /\ pc = "done"

\* C2: the persisted log never holds more than 10 turns, and after a save it
\* is the last 10 turns (all of them when there are fewer) of the list the
\* save was given, in their order.
C2_SaveKeepsNewestTen ==
    /\ Len(load_history(file)) <= 10
    /\ Has(calls, "save_history") =>
          /\ file.exists
          /\ JsonLoad(file.data).ok
          /\ JsonLoad(file.data).value = LastTurns(history, 10)

C2_Witness ==
    Has(calls, "save_history") /\ Len(history) > 10 /\ cycles > 1

\* C3: from the moment a generated command is shown, and whatever the user
\* answers and the command returns, the persisted log is the last 10 turns of
\* the loaded log, the user turn with the trimmed prompt and the assistant
\* turn with the cleaned command.
C3_ExchangePersistedBeforeConfirm ==
    (pc \in {"confirm", "run"} \/ Has(calls, "show_command")) =>
        /\ Has(calls, "save_history")
        /\ command = strip_command(ResponseContent(response))
        /\ file.exists
        /\ load_history(file) =
              LastTurns(loaded \o << Turn(RoleUser, Trimmed(prompt)),
                                     Turn(RoleAssistant, command) >>, 10)

C3_Witness ==
    /\ Has(calls, "Confirm.ask:no")
    /\ mode = "interactive"
    /\ Len(loaded) = 10
    /\ prompt # Trimmed(prompt)

\* C4: a load right after a save of any list of turns returns the last
\* min(len, 10) turns of that list, in their order.
C4_SaveThenLoad ==
    calls = <<"save_history", "load_history">> =>
        /\ Len(loaded) = (IF Len(history) < 10 THEN Len(history) ELSE 10)
        /\ \A i \in 1..Len(loaded) :
              loaded[i] = history[Len(history) - Len(loaded) + i]

C4_Witness ==
    /\ calls = <<"save_history", "load_history">>
    /\ Len(history) > 10
    /\ Len(loaded) = 10

\* C5: a load right after a clear returns the empty list; a clear leaves no
\* file, and leaves an absent file as it was.
C5_ClearThenLoad ==
    /\ [](calls = <<"clear_history", "load_history">> => loaded = <<>>)
    /\ [][StoreClear => (~file'.exists /\ (~file.exists => file' = file))]_vars

C5_Witness ==
    /\ calls = <<"clear_history", "load_history">>
    /\ loaded = <<>>
    /\ Len(history) > 0

\* C6: in one-shot mode, once the confirmed command has returned status k the
\* process has ended with status k, zero or not.
C6_OneShotPropagatesStatus ==
    (mode = "oneshot" /\ Has(calls, "run_command")) =>
        pc = "done" /\ exitCode = exit_code

C6_Witness ==
    /\ mode = "oneshot"
    /\ Has(calls, "run_command")
    /\ exit_code = 3
    /\ pc = "done"

\* C7: in interactive mode, after a declined confirmation and after a command
\* that returned a non-zero status, the loop is reading the next line.
C7_LoopSurvivesDeclineAndFailure ==
    (/\ mode = "interactive"
     /\ calls # <<>>
     /\ \/ Last(calls) = "Confirm.ask:no"
        \/ Last(calls) = "run_command" /\ exit_code # 0)
        => pc = "read"

C7_Witness ==
    /\ mode = "interactive"
    /\ calls # <<>>
    /\ Last(calls) = "run_command"
    /\ exit_code = 3
    /\ pc = "read"

\* C8: when the credential is missing, the remote call raised or the cleaned
\* response is empty, the process has ended with status 1, the command was
\* neither shown, confirmed nor run, and the remote call was made at most
\* once.
C8_GenerationFailureIsFatal ==
    (/\ Has(calls, "generate_command")
     /\ \/ ~env.groq \/ ~env.api_key.set \/ env.api_key.value = <<>>
        \/ /\ Has(calls, "create")
           /\ \/ response.raised
              \/ strip_command(ResponseContent(response)) = <<>>)
        => /\ pc = "done"
           /\ exitCode = 1
           /\ ~Has(calls, "show_command")
           /\ ~Has(calls, "Confirm.ask:yes") /\ ~Has(calls, "Confirm.ask:no")
           /\ ~Ran
           /\ Count(calls, "create") <= 1

C8_Witness ==
    /\ mode = "interactive"
    /\ Has(calls, "create")
    /\ ~response.raised
    /\ strip_command(ResponseContent(response)) = <<>>
    /\ pc = "done"

ClearLines == {<<"c", "l", "e", "a", "r">>, <<" ", "C", "l", "e", "a", "R", " ">>}

\* C9: in interactive mode, a line that reads "clear" leaves no history file,
\* calls nothing but clear_history and leaves the loop reading; the first
\* request sent after it holds the system message and the new user turn only.
C9_ClearLine ==
    /\ (mode = "interactive" /\ calls # <<>> /\ calls[1] = "Prompt.ask"
            /\ prompt \in ClearLines)
          => /\ calls = <<"Prompt.ask", "clear_history">>
             /\ pc = "read"
             /\ ~file.exists
             /\ load_history(file) = <<>>
    /\ (afterClear = "first" /\ Has(calls, "create"))
          => /\ loaded = <<>>
             /\ Len(messages) = 2
             /\ messages[1].role = RoleSystem
             /\ messages[2] = Turn(RoleUser, Trimmed(prompt))

C9_Witness ==
    /\ afterClear = "first"
    /\ Has(calls, "create")
    /\ Len(messages) = 2
    /\ pc = "confirm"

ExitLines ==
    {<<"e", "x", "i", "t">>, <<" ", "E", "X", "I", "T", " ">>,
     <<"Q", "u", "i", "t">>}

\* The line or signal just read ends the loop.
EndsLoop ==
    \/ calls \in {<<"EOFError">>, <<"KeyboardInterrupt">>}
    \/ calls # <<>> /\ calls[1] = "Prompt.ask" /\ prompt \in ExitLines

\* C10: in interactive mode, "exit" or "quit" in any case and with blanks
\* around it, end-of-input and an interrupt end the process with status 0
\* with nothing called and the history file untouched, and nothing else ends
\* the loop where the line is read.
C10_LoopEnds ==
    /\ [](mode = "interactive" /\ EndsLoop
            => pc = "done" /\ exitCode = 0 /\ Len(calls) = 1)
    /\ [][(pc = "read" /\ pc' = "done")
            => (EndsLoop' /\ exitCode' = 0 /\ file' = file)]_vars

C10_Witness ==
    /\ mode = "interactive"
    /\ pc = "done"
    /\ calls = <<"Prompt.ask">>
    /\ prompt = <<"Q", "u", "i", "t">>

\* C11: with --clear, whatever the other arguments and the host are, the
\* process has cleared the history and ended with status 0 straight from
\* main: no mode entered, nothing generated, confirmed or run.
C11_ClearFlagFirst ==
    (argv.clear /\ pc # "main") =>
        /\ pc = "done"
        /\ exitCode = 0
        /\ ~file.exists
        /\ mode = "none"
        /\ calls = <<"clear_history">>
        /\ cycles = 0

C11_Witness ==
    /\ argv.clear /\ argv.interactive /\ argv.prompt.set
    /\ ~IsLinux(env.system)
    /\ pc = "done"
    /\ exitCode = 0

BlankLines == {<<>>, <<" ", "\t">>}

\* C12: in interactive mode an empty or whitespace-only line calls nothing,
\* leaves the loop reading, and changes neither the history file nor
\* anything a generation left.
C12_BlankLine ==
    /\ [](mode = "interactive" /\ calls # <<>> /\ calls[1] = "Prompt.ask"
            /\ prompt \in BlankLines
            => calls = <<"Prompt.ask">> /\ pc = "read")
    /\ [][(pc = "read" /\ cycles' # cycles /\ prompt' \in BlankLines)
            => /\ file' = file
               /\ pc' = "read"
               /\ UNCHANGED <<response, command, messages, loaded, history,
                              exit_code, afterClear, exitCode>>]_vars

C12_Witness ==
    /\ mode = "interactive"
    /\ calls = <<"Prompt.ask">>
    /\ prompt = <<" ", "\t">>
    /\ pc = "read"
    /\ file.exists
    /\ cycles > 1

\* ---------------------------------------------------- strip_command alone
\* strip_command applied once, and then again to its own result, to every
\* response text of at most MaxStrLen characters over a backtick, a space, a
\* newline and a letter.
StripAlphabet == {BT, " ", "\n", "a"}
ResponseTexts == UNION {[1..n -> StripAlphabet] : n \in 0..MaxStrLen}

StripInit ==
    /\ pc = "raw"
    /\ argv = NoArgs
    /\ peer = NoPeer
    /\ env \in {e \in Environments : ensure_groq(e) /\ IsLinux(e.system)
                                       /\ ~e.shell.set}
    /\ file = NoFile
    /\ mode = "none"
    /\ exit_on_abort = FALSE
    /\ shell = detect_shell(Unset)
    /\ prompt = <<>>
    /\ response \in [raised : {FALSE}, none : {FALSE}, content : ResponseTexts]
    /\ command = <<>>
    /\ messages = <<>>
    /\ loaded = <<>>
    /\ history = <<>>
    /\ exit_code = 0
    /\ calls = <<>>
    /\ afterClear = "none"
    /\ cycles = 0
    /\ exitCode = 0

\* command = strip_command(content), as generate_command computes it.
StripOnce ==
    /\ pc = "raw"
    /\ command' = strip_command(ResponseContent(response))
    /\ pc' = "once"
    /\ calls' = <<"strip_command">>
    /\ UNCHANGED <<argv, peer, env, file, mode, exit_on_abort, shell, prompt,
                   response, messages, loaded, history, exit_code, afterClear,
                   cycles, exitCode>>

\* strip_command applied to the command it returned.
StripAgain ==
    /\ pc = "once"
    /\ command' = strip_command(command)
    /\ pc' = "twice"
    /\ calls' = <<"strip_command", "strip_command">>
    /\ UNCHANGED <<argv, peer, env, file, mode, exit_on_abort, shell, prompt,
                   response, messages, loaded, history, exit_code, afterClear,
                   cycles, exitCode>>

StripNext == StripOnce \/ StripAgain

StripSpec == StripInit /\ [][StripNext]_vars

\* C13: strip_command applied to its own result returns that result: once
\* applied twice, the command is what one application gives.
C13_StripIdempotent ==
    pc = "twice" => command = strip_command(ResponseContent(response))

\* C19: the command strip_command returns holds no backtick and neither
\* starts nor ends with whitespace.
C19_StripLeavesCleanCommand ==
    pc = "once" =>
        /\ \A i \in 1..Len(command) : command[i] # BT
        /\ command # <<>> =>
              command[1] \notin Whitespace /\ command[Len(command)] \notin Whitespace

\* C14: load_history never fails, so a generation that has its credential
\* always gets as far as the remote call, with the loaded turns between the
\* system message and the new user turn, whatever the history file holds.
C14_LoadNeverFails ==
    (Has(calls, "generate_command") /\ ensure_groq(env)) =>
        /\ ~Has(calls, "load_history:UnicodeDecodeError")
        /\ ~Has(calls, "messages.extend:TypeError")
        /\ Has(calls, "create")
        /\ Len(messages) = Len(loaded) + 2

\* ------------------------------------------------- save_history, by steps
\* One call of save_history followed system call by system call: open(..,
\* "w") empties the file in place, json.dump writes the tokens into it, the
\* end of the with block closes it.  The process may be stopped (a signal, a
\* failed write) between two steps, and another process may read the file.
SaveFiles == {NoFile, save_history(SeedHistory)}
SaveLists == UNION {[1..n -> StoreTurns] : n \in 0..MaxSaveTurns}

SaveInit ==
    /\ pc = "save"
    /\ argv = NoArgs
    /\ peer = NoPeer
    /\ env \in {e \in Environments : ensure_groq(e) /\ IsLinux(e.system)
                                       /\ ~e.shell.set}
    /\ file \in SaveFiles
    /\ mode = "none"
    /\ exit_on_abort = FALSE
    /\ shell = detect_shell(Unset)
    /\ prompt = <<>>
    /\ response = NoResponse
    /\ command = <<>>
    /\ messages = <<>>
    /\ loaded = <<>>
    /\ history \in SaveLists
    /\ exit_code = 0
    /\ calls = <<>>
    /\ afterClear = "none"
    /\ cycles = 0
    /\ exitCode = 0

\* open(HISTORY_FILE, "w"): the file exists and is empty.
SaveOpen ==
    /\ pc = "save"
    /\ file' = [exists |-> TRUE, data |-> <<>>]
    /\ pc' = "writing"
    /\ calls' = <<"open">>
    /\ UNCHANGED <<argv, peer, env, mode, exit_on_abort, shell, prompt,
                   response, command, messages, loaded, history, exit_code,
                   afterClear, cycles, exitCode>>

\* json.dump: the next token of the trimmed list reaches the file.
SaveWrite ==
    /\ pc = "writing"
    /\ Len(file.data) < Len(save_history(history).data)
    /\ file' = [exists |-> TRUE,
                data |-> TakeFirst(save_history(history).data,
                                   Len(file.data) + 1)]
    /\ calls' = <<"open", "write">>
    /\ UNCHANGED <<pc, argv, peer, env, mode, exit_on_abort, shell, prompt,
                   response, command, messages, loaded, history, exit_code,
                   afterClear, cycles, exitCode>>

\* The with block ends once everything is written.
SaveClose ==
    /\ pc = "writing"
    /\ file.data = save_history(history).data
    /\ pc' = "saved"
    /\ calls' = <<"open", "write", "close">>
    /\ UNCHANGED <<argv, peer, env, file, mode, exit_on_abort, shell, prompt,
                   response, command, messages, loaded, history, exit_code,
                   afterClear, cycles, exitCode>>

\* The process is stopped while the file is open.
SaveStopped ==
    /\ pc = "writing"
    /\ pc' = "stopped"
    /\ UNCHANGED <<argv, peer, env, file, mode, exit_on_abort, shell, prompt,
                   response, command, messages, loaded, history, exit_code,
                   calls, afterClear, cycles, exitCode>>

\* Another process loads the history.
SaveReader ==
    /\ load_outcome(file) = "list"
    /\ loaded' = load_history(file)
    /\ UNCHANGED <<pc, argv, peer, env, file, mode, exit_on_abort, shell,
                   prompt, response, command, messages, history, exit_code,
                   calls, afterClear, cycles, exitCode>>

SaveNext == SaveOpen \/ SaveWrite \/ SaveClose \/ SaveStopped \/ SaveReader

SaveSpec == SaveInit /\ [][SaveNext]_vars

\* C15: save_history writes atomically: at every point of a save, stopped or
\* not, the file is the complete previous log or the complete new trimmed
\* log.
C15_SaveAtomic ==
    \/ file \in SaveFiles
    \/ /\ file.exists
       /\ JsonLoad(file.data).ok
       /\ JsonLoad(file.data).value = LastTurns(history, 10)

\* The log is whole exchanges: user, assistant, user, assistant, ...
Alternating(log) ==
    /\ Len(log) % 2 = 0
    /\ \A i \in 1..Len(log) :
          log[i].role = (IF i % 2 = 1 THEN RoleUser ELSE RoleAssistant)

\* C16: the persisted log always has even length and alternates user,
\* assistant from a user turn on, also after a cut to 10; every request sent
\* is the system message, the stored turns in their order, then the new user
\* turn: 12 messages at most.
C16_WholeExchanges ==
    /\ Alternating(load_history(file))
    /\ Has(calls, "create") =>
          /\ Alternating(loaded)
          /\ Len(loaded) <= 10
          /\ Len(messages) = Len(loaded) + 2
          /\ Len(messages) <= 12
          /\ messages[1].role = RoleSystem
          /\ \A i \in 1..Len(loaded) : messages[i + 1] = loaded[i]
          /\ messages[Len(messages)] = Turn(RoleUser, Trimmed(prompt))

C16_Witness ==
    /\ Has(calls, "save_history")
    /\ Len(loaded) = 10
    /\ Len(messages) = 12
    /\ Len(load_history(file)) = 10
    /\ cycles > 1

\* ------------------------------------------------------- two invocations
\* Two one-shot invocations of tell on the same history file, each with its
\* credential and a usable response.  Each loads the history (cli.py:110),
\* waits for the model, then appends and saves (cli.py:136-138).  A save is
\* two steps, the open that empties the file and the write that fills it
\* (utils.py:32-33); nothing locks the file, so the six steps interleave
\* freely.

\* The bytes json.dumps gives one character of a string of the model.
CharBytes(c) == IF c \in {"\n", "\t"} THEN 2 ELSE 1

RECURSIVE StrBytes(_)
StrBytes(str) ==
    IF str = <<>> THEN 0 ELSE CharBytes(Head(str)) + StrBytes(Tail(str))

RECURSIVE TurnsBytes(_)
\* Braces, keys, quotes, indentation and separators of a turn come to 43.
TurnsBytes(turns) ==
    IF turns = <<>> THEN 0
    ELSE 43 + StrBytes(Head(turns).role) + StrBytes(Head(turns).content)
            + TurnsBytes(Tail(turns))

\* The length in bytes of the text json.dump(turns, f, indent=2) writes.
TextBytes(turns) == 2 + TurnsBytes(turns)

\* The length of the file: nothing after an open, or a whole text.
FileBytes(data) ==
    IF data = <<>> THEN 0 ELSE TextBytes(JsonLoad(data).value)

\* What is left of an earlier, longer text after a shorter one was written
\* over its start.
Leftover == Punct("leftover")

\* The with block of save_history ends: the buffered text is written from
\* offset 0 of the file this invocation opened.  Bytes another invocation
\* wrote beyond the end of this text stay where they are.
WriteAtStart(turns, data) ==
    IF FileBytes(data) <= TextBytes(PySliceFrom(turns, 0 - MAX_HISTORY))
    THEN save_history(turns)
    ELSE [exists |-> TRUE, data |-> save_history(turns).data \o <<Leftover>>]

RaceFiles ==
    {NoFile, save_history(SeedHistory), save_history(SubSeq(SeedHistory, 1, 8))}

UsableResponses ==
    {r \in RemoteOutcomes :
        ~r.raised /\ ~IsEmptyCommand(strip_command(ResponseContent(r)))}

RaceInit ==
    /\ pc = "generate"
    /\ argv \in {a \in MainArgs : ~a.clear /\ ~a.interactive /\ a.prompt.set}
    /\ peer \in [pc : {"generate"}, prompt : {<<" ", "p", "w", "d">>},
                 loaded : {<<>>}, command : {<<>>}]
    /\ env \in {e \in Environments : ensure_groq(e) /\ IsLinux(e.system)
                                       /\ ~e.shell.set}
    /\ file \in RaceFiles
    /\ mode = "oneshot"
    /\ exit_on_abort = TRUE
    /\ shell = detect_shell(env.shell)
    /\ prompt = argv.prompt.value
    /\ response = NoResponse
    /\ command = <<>>
    /\ messages = <<>>
    /\ loaded = <<>>
    /\ history = <<>>
    /\ exit_code = 0
    /\ calls = <<>>
    /\ afterClear = "none"
    /\ cycles = 0
    /\ exitCode = 0

\* This invocation: generate_command up to the remote call.
RaceLoad ==
    /\ pc = "generate"
    /\ loaded' = load_history(file)
    /\ messages' = BuildMessages(
                      build_system_prompt(OsLinux, shell.shell_name, DirContext),
                      load_history(file), prompt)
    /\ pc' = "remote"
    /\ calls' = Append(calls, "A:load")
    /\ UNCHANGED <<argv, peer, env, file, mode, exit_on_abort, shell, prompt,
                   response, command, history, exit_code, afterClear, cycles,
                   exitCode>>

\* This invocation: the response, the two appends, and save_history up to
\* open(HISTORY_FILE, "w"), which empties the file.
RaceOpen ==
    /\ pc = "remote"
    /\ \E r \in UsableResponses :
        /\ response' = r
        /\ command' = strip_command(ResponseContent(r))
        /\ history' = AppendExchange(loaded, prompt,
                                     strip_command(ResponseContent(r)))
    /\ file' = [exists |-> TRUE, data |-> <<>>]
    /\ pc' = "saving"
    /\ calls' = Append(calls, "A:open")
    /\ UNCHANGED <<argv, peer, env, mode, exit_on_abort, shell, prompt,
                   messages, loaded, exit_code, afterClear, cycles, exitCode>>

\* This invocation: json.dump and the end of the with block.
RaceClose ==
    /\ pc = "saving"
    /\ file' = WriteAtStart(history, file.data)
    /\ pc' = "confirm"
    /\ calls' = Append(calls, "A:save")
    /\ UNCHANGED <<argv, peer, env, mode, exit_on_abort, shell, prompt,
                   response, command, messages, loaded, history, exit_code,
                   afterClear, cycles, exitCode>>

\* The other invocation: generate_command up to the remote call.
PeerLoad ==
    /\ peer.pc = "generate"
    /\ peer' = [peer EXCEPT !.pc = "remote", !.loaded = load_history(file)]
    /\ calls' = Append(calls, "B:load")
    /\ UNCHANGED <<pc, argv, env, file, mode, exit_on_abort, shell, prompt,
                   response, command, messages, loaded, history, exit_code,
                   afterClear, cycles, exitCode>>

\* The other invocation: the response, the appends and the open.
PeerOpen ==
    /\ peer.pc = "remote"
    /\ \E r \in UsableResponses :
        peer' = [peer EXCEPT !.pc = "saving",
                             !.command = strip_command(ResponseContent(r))]
    /\ file' = [exists |-> TRUE, data |-> <<>>]
    /\ calls' = Append(calls, "B:open")
    /\ UNCHANGED <<pc, argv, env, mode, exit_on_abort, shell, prompt,
                   response, command, messages, loaded, history, exit_code,
                   afterClear, cycles, exitCode>>

\* The other invocation: json.dump and the end of the with block.
PeerClose ==
    /\ peer.pc = "saving"
    /\ peer' = [peer EXCEPT !.pc = "confirm"]
    /\ file' = WriteAtStart(AppendExchange(peer.loaded, peer.prompt,
                                           peer.command), file.data)
    /\ calls' = Append(calls, "B:save")
    /\ UNCHANGED <<pc, argv, env, mode, exit_on_abort, shell, prompt,
                   response, command, messages, loaded, history, exit_code,
                   afterClear, cycles, exitCode>>

RaceNext ==
    RaceLoad \/ RaceOpen \/ RaceClose \/ PeerLoad \/ PeerOpen \/ PeerClose

RaceSpec == RaceInit /\ [][RaceNext]_vars

\* The exchange each invocation appends.
ExchangeA == <<Turn(RoleUser, Trimmed(prompt)), Turn(RoleAssistant, command)>>
ExchangeB ==
    <<Turn(RoleUser, Trimmed(peer.prompt)), Turn(RoleAssistant, peer.command)>>

InLog(turn, log) == \E i \in 1..Len(log) : log[i] = turn

\* Where a step stands in the log of the steps taken.
Pos(step) == CHOOSE i \in 1..Len(calls) : calls[i] = step

\* C17: once both invocations have saved: if both loaded before either
\* began to save, the file is the one the last writer wrote, its loaded log
\* plus its own exchange cut to 10, and the other's exchange is not in it;
\* if one loaded after the other's save had ended, the log is the first log
\* plus both exchanges in their order, cut to 10.
C17_LastWriterWins ==
    (pc = "confirm" /\ peer.pc = "confirm") =>
        LET log == load_history(file)
            overlap == Max(Pos("A:load"), Pos("B:load"))
                          < Min(Pos("A:open"), Pos("B:open"))
            inTurn == \/ Pos("A:save") < Pos("B:load")
                      \/ Pos("B:save") < Pos("A:load")
            lastIsA == Last(calls) = "A:save"
        IN  /\ Len(calls) = 6
            /\ overlap =>
                  /\ loaded = peer.loaded
                  /\ lastIsA =>
                        /\ file = save_history(loaded \o ExchangeA)
                        /\ ~InLog(ExchangeB[1], log)
                  /\ ~lastIsA =>
                        /\ file = save_history(peer.loaded \o ExchangeB)
                        /\ ~InLog(ExchangeA[1], log)
            /\ inTurn =>
                  /\ lastIsA =>
                        log = LastTurns(peer.loaded \o ExchangeB \o ExchangeA, 10)
                  /\ ~lastIsA =>
                        log = LastTurns(loaded \o ExchangeA \o ExchangeB, 10)
                  /\ InLog(ExchangeA[1], log) /\ InLog(ExchangeB[1], log)

\* A response generate_command rejects: the call raised, or what is left of
\* the content after cleaning is empty.
Rejected(r) == r.raised \/ strip_command(ResponseContent(r)) = <<>>

\* The generation that just ended had no credential or a rejected response.
GenerationFailed ==
    /\ Has(calls, "generate_command")
    /\ \/ ~ensure_groq(env)
       \/ Has(calls, "create") /\ Rejected(response)

\* C18: a generation that fails (no credential, a remote call that raises,
\* an empty command), and any generation that ends the process, leaves the
\* history file exactly as it was: nothing written, no file created.
C18_FailureLeavesHistory ==
    [][pc = "generate" =>
          /\ (pc' = "done" \/ ~ensure_groq(env)) => file' = file
          /\ \A r \in RemoteOutcomes :
                (response' = r /\ Has(calls', "create") /\ Rejected(r))
                    => file' = file]_vars

C18_Witness ==
    /\ GenerationFailed
    /\ Has(calls, "create")
    /\ response.raised
    /\ pc = "done"
    /\ exitCode = 1
    /\ ~file.exists

Confirmations == Count(calls, "Confirm.ask:yes") + Count(calls, "Confirm.ask:no")
Executions ==
    Count(calls, "run_command") + Count(calls, "run_command:FileNotFoundError")

\* A one-shot run that has not ended has a step to take once the call it
\* waits for returns.  Generate is guarded by pc alone and every branch of
\* it is a step, so it can act as soon as the remote call has an outcome.
OneShotCanStep ==
    \/ pc = "done"
    \/ pc = "generate" /\ RemoteOutcomes # {}
    \/ pc = "confirm" /\ ENABLED Confirm
    \/ pc = "run" /\ ENABLED RunCommand

\* What a one-shot run does, whichever way it was entered: one generation,
\* at most one confirmation and one execution, every step a further call,
\* and a next step as long as the process has not ended.
OneShotRunsOneCycle ==
    /\ [](mode = "oneshot" =>
            /\ pc \in {"generate", "confirm", "run", "done"}
            /\ Count(calls, "generate_command") = (IF pc = "generate" THEN 0 ELSE 1)
            /\ Confirmations <= 1
            /\ Executions <= 1
            /\ cycles = 0
            /\ OneShotCanStep)
    /\ [][mode = "oneshot" => (mode' = "oneshot" /\ Len(calls') > Len(calls))]_vars

\* C20 as stated: one-shot mode is entered exactly when a prompt is given
\* without --interactive and --clear, and the interactive loop exactly when
\* there is no --clear and --interactive is given or no prompt is.
C20_OneShotExactlyWithPrompt ==
    pc # "main" =>
        /\ mode = "oneshot" <=>
              (argv.prompt.set /\ ~argv.interactive /\ ~argv.clear)
        /\ mode = "interactive" <=>
              (~argv.clear /\ (argv.interactive \/ ~argv.prompt.set))

\* C20, amended: on a host detect_os accepts, one-shot mode is entered
\* exactly when a prompt is given without --interactive and --clear, and the
\* interactive loop with --interactive or without a prompt, and without
\* --clear.  On any other host, without --clear, the process ends with
\* status 1 before either mode is entered and before anything is called.
\* A one-shot run is one generation, at most one confirmation and one
\* execution, and it ends.
C20_OneShotOnLinux ==
    /\ [](pc # "main" =>
            /\ mode = "oneshot" <=>
                  (/\ IsLinux(env.system)
                   /\ argv.prompt.set /\ ~argv.interactive /\ ~argv.clear)
            /\ mode = "interactive" <=>
                  (/\ IsLinux(env.system)
                   /\ ~argv.clear /\ (argv.interactive \/ ~argv.prompt.set))
            /\ (~IsLinux(env.system) /\ ~argv.clear) =>
                  /\ pc = "done"
                  /\ exitCode = 1
                  /\ mode = "none"
                  /\ calls = <<>>)
    /\ OneShotRunsOneCycle

C20_Witness ==
    /\ mode = "oneshot"
    /\ argv.prompt.set /\ ~argv.interactive /\ ~argv.clear
    /\ Has(calls, "run_command")
    /\ pc = "done"

====
